---- MODULE Spec2Model ----
(***************************************************************************)
(* Model of api/modules/tuya.js (src/unnamed/part_001) and lib/redis.js:   *)
(* the Redis-cached access token (getAccessToken), the request signature   *)
(* (generateSign) and the signed request with its single retry on the      *)
(* vendor code 1010 (makeCustomRequest), and the exported action handler   *)
(* that routes a query to them (module.exports).                           *)
(*                                                                         *)
(* Every await of the source is one step of the process that runs it; the  *)
(* outcome of each Redis command and of each HTTP call is drawn with \E.   *)
(***************************************************************************)
EXTENDS Integers, Sequences, FiniteSets, TLC

\* ------------------------------------------------------------------ bounds
MaxTok == 2          \* the vendor issues tokens 1..MaxTok
MaxOver == 1         \* expire_time ranges over -MaxOver..1 and over
                     \* SafetyMargin - 1..SafetyMargin + MaxOver

\* ------------------------------------------------------- program constants
SafetyMargin == 60       \* part_001:71
InvalidTokenCode == 1010 \* part_001:150
NoToken == 0             \* what redisClient.get yields for an absent key (falsy)
NoClient == 0            \* redisClient = null

Procs == {1, 2}          \* invocations of makeCustomRequest (concurrent requests)

Tokens == 1..MaxTok
ExpireTimes == (0 - MaxOver)..1 \cup (SafetyMargin - 1)..(SafetyMargin + MaxOver)

Methods == {"get", "POST", "PUT", "PATCH", "DELETE"}
Paths == {"/v1.0/devices/d1/commands"}
NoData == "null"
Data == {NoData, "{commands}"}

ClientId == "TUYA_CLIENT_ID"
ClientSecret == "TUYA_CLIENT_SECRET"

VARIABLES
  cache,          \* the Redis key "tuya_token": [val, ttl], val = NoToken when absent
  clock,          \* Date.now()
  pc,             \* pc[p]: where invocation p stands
  args,           \* args[p]: method, path, data of the top-level call
  retry,          \* retry[p]: the retry parameter of the running makeCustomRequest
  redisClient,    \* redisClient[p]: getAccessToken's local (index in conns[p])
  redisClientDel, \* redisClientDel[p]: makeCustomRequest's local
  conns,          \* conns[p]: the connections getRedisClient returned to p
  gat,            \* gat[p]: the running (or last) getAccessToken call of p
  requests,       \* requests[p]: the resource requests p handed to axios
  responses,      \* responses[p]: what axios answered to each of them
  dels,           \* dels[p]: the outcome of each delete block p ran after a 1010
  result,         \* result[p]: what the top-level makeCustomRequest gave its caller
  env,            \* process.env: whether TUYA_CLIENT_ID, TUYA_CLIENT_SECRET are set
  queryParams,    \* queryParams[p]: the argument of the exported handler
  reply,          \* reply[p]: what the exported handler resolved with
  stored          \* history: what "tuya_token" would hold if no TTL ever elapsed

\* the variables of the exported handler
handlerVars == <<env, queryParams, reply>>

vars == <<cache, clock, pc, args, retry, redisClient, redisClientDel, conns,
          gat, requests, responses, dels, result, handlerVars, stored>>

\* ------------------------------------------------------------ pure helpers

\* String.prototype.toUpperCase on the method names in use
ToUpperCase(m) == IF m = "get" THEN "GET" ELSE IF m = "post" THEN "POST" ELSE m

\* the payload object of the control action
Payload(code, value) ==
  "{commands: [{code: " \o code \o ", value: "
     \o (IF value THEN "true" ELSE "false") \o "}]}"
PayloadOn == Payload("switch_1", TRUE)
PayloadOff == Payload("switch_2", FALSE)

\* JSON.stringify(data)
Stringify(d) ==
  IF d = "{commands}" THEN "{\"commands\":[]}"
  ELSE IF d = PayloadOn
    THEN "{\"commands\":[{\"code\":\"switch_1\",\"value\":true}]}"
  ELSE IF d = PayloadOff
    THEN "{\"commands\":[{\"code\":\"switch_2\",\"value\":false}]}"
  ELSE "null"

\* data ? JSON.stringify(data) : ""
BodyOf(d) == IF d # NoData THEN Stringify(d) ELSE ""

\* mutant of CredentialsSet: only the client id is looked at
CredentialsSetById(e) == e.TUYA_CLIENT_ID

\* !TUYA_CLIENT_ID || !TUYA_CLIENT_SECRET  (negated)
CredentialsSet(e) == e.TUYA_CLIENT_ID /\ e.TUYA_CLIENT_SECRET

\* crypto.createHash("sha256").update(body).digest("hex")
Sha256(body) == <<"sha256", body>>

\* crypto.createHmac("sha256", key).update(str).digest("hex").toUpperCase()
HmacSha256(key, str) == <<"HMAC", key, str>>

\* generateSign(method, path, body, token) at Date.now() = now
generateSign(method, path, body, token, now) ==
  LET contentHash == Sha256(body)
      stringToSign == <<method, contentHash, "", path>>
      signStr == <<ClientId, token, now, stringToSign>>
  IN [sign |-> HmacSha256(ClientSecret, signStr),
      timestamp |-> now,
      clientId |-> ClientId]

\* mutant of TtlOf: the safety margin is forgotten
TtlOfNoMargin(expireTime) == expireTime

\* const ttl = expireTime > 60 ? expireTime - 60 : expireTime
TtlOf(expireTime) ==
  IF expireTime > SafetyMargin THEN expireTime - SafetyMargin ELSE expireTime

\* mutant of ShouldCache: the guard on the ttl is missing
ShouldCacheAlways(ttl) == TRUE

\* if (ttl > 0) set(...) else warn
ShouldCache(ttl) == ttl > 0

\* mutant of ValidateStatus: no upper limit on the status
ValidateStatusNoLimit(status) == status >= 200

\* validateStatus: status >= 200 && status < 500
ValidateStatus(status) == status >= 200 /\ status < 500

\* mutant of TokenAccepted: the check of result.access_token is missing
TokenAcceptedBySuccess(r) == r.success

\* !response.data?.success || !response.data.result?.access_token  (negated)
TokenAccepted(r) == r.success /\ r.access_token # NoToken

\* mutants of IsInvalidToken: the retry flag is inverted; every failure
\* envelope is taken for an invalid token
IsInvalidTokenNotRetry(data, r) == data.code = InvalidTokenCode /\ ~r
IsInvalidTokenAnyFailure(data, r) == ~data.success /\ r

\* mutant of IsInvalidToken: the retry flag is not looked at
IsInvalidTokenAlways(data, r) == data.code = InvalidTokenCode

\* response.data?.code === 1010 && retry
IsInvalidToken(data, r) == data.code = InvalidTokenCode /\ r

\* data && ['POST', 'PUT', 'PATCH'].includes(requestConfig.method)
CarriesData(d, method) == d # NoData /\ method \in {"POST", "PUT", "PATCH"}

\* ------------------------------------------------------------------ values
EmptyCache == [val |-> NoToken, ttl |-> 0]
NoEnvelope == [status |-> 0, code |-> 0, success |-> FALSE, tid |-> 0]
Pending == [kind |-> "pending", data |-> NoEnvelope]

\* the vendor's envelopes, by HTTP status; tid numbers the vendor's answers
Envelopes(n) ==
  {[status |-> 200, code |-> 0, success |-> TRUE, tid |-> n],
   [status |-> 200, code |-> 1004, success |-> FALSE, tid |-> n],
   [status |-> 401, code |-> 1004, success |-> FALSE, tid |-> n],
   [status |-> 200, code |-> InvalidTokenCode, success |-> FALSE, tid |-> n]}

\* what the token endpoint can answer: axios rejects (http = FALSE), or an
\* envelope with success, result.access_token (NoToken when absent) and
\* result.expire_time
NoResponse == [http |-> FALSE, success |-> FALSE, access_token |-> NoToken,
               expire_time |-> 0]
TokenResponses ==
  {NoResponse}
  \cup [http : {TRUE}, success : BOOLEAN, access_token : {NoToken}, expire_time : {0}]
  \cup [http : {TRUE}, success : {TRUE}, access_token : Tokens,
        expire_time : ExpireTimes]

\* what the resource endpoint can answer: no response at all (network), or an
\* HTTP response carrying an envelope
NetworkError == [kind |-> "network", data |-> NoEnvelope]
ResourceResponses(n) ==
  {NetworkError}
  \cup [kind : {"http"}, data : Envelopes(n)]
  \cup {[kind |-> "http",
         data |-> [status |-> 500, code |-> 0, success |-> FALSE, tid |-> n]]}

\* the locals of one getAccessToken call, and what it has done so far
NewGat ==
  [read |-> "none", found |-> NoToken, resp |-> NoResponse, ttl |-> 0,
   tokenCalls |-> 0, sets |-> 0, setTtl |-> 0, errs |-> {}, out |-> "pending",
   tok |-> NoToken]

\* ------------------------------------------------------------- lib/redis.js

\* getRedisClient() resolved: a new connected client, the last of conns[p]
Connected(cs) == Append(cs, [quits |-> 0])

\* client.quit() on connection c: ok tells whether the command succeeded
QuitConn(cs, c, ok) ==
  [cs EXCEPT ![c] = [quits |-> @.quits + 1]]

\* ----------------------------------------------------------- getAccessToken

\* entering getAccessToken: let redisClient = null, then the first await
EnterGetAccessToken(p) ==
  /\ gat' = [gat EXCEPT ![p] = NewGat]
  /\ redisClient' = [redisClient EXCEPT ![p] = NoClient]
  /\ pc' = [pc EXCEPT ![p] = "gat_open"]

\* return token, back in makeCustomRequest after its await
GatReturn(p, g, token) ==
  /\ gat' = [gat EXCEPT ![p] = [g EXCEPT !.out = "returned", !.tok = token]]
  /\ pc' = [pc EXCEPT ![p] = "mcr_request"]

\* redisClient = await getRedisClient()   (read phase)
GatOpen(p) ==
  /\ pc[p] = "gat_open"
  /\ \/ /\ conns' = [conns EXCEPT ![p] = Connected(@)]
        /\ redisClient' = [redisClient EXCEPT ![p] = Len(conns[p]) + 1]
        /\ pc' = [pc EXCEPT ![p] = "gat_get"]
        /\ UNCHANGED gat
     \/ /\ gat' = [gat EXCEPT ![p].read = "error", ![p].errs = @ \cup {"open"}]
        /\ pc' = [pc EXCEPT ![p] = "gat_vendor"]
        /\ UNCHANGED <<conns, redisClient>>
  /\ UNCHANGED <<cache, clock, args, retry, redisClientDel, requests, responses,
                 dels, result>>
  /\ UNCHANGED <<handlerVars, stored>>

\* mutant of GatGet: the value read is not looked at
GatGetMiss(p) ==
  /\ pc[p] = "gat_get"
  /\ \/ /\ gat' = [gat EXCEPT ![p].read = "miss"]
        /\ pc' = [pc EXCEPT ![p] = "gat_vendor"]
     \/ /\ gat' = [gat EXCEPT ![p].read = "error", ![p].errs = @ \cup {"get"}]
        /\ pc' = [pc EXCEPT ![p] = "gat_read_catch"]
  /\ UNCHANGED <<cache, clock, args, retry, redisClient, redisClientDel, conns,
                 requests, responses, dels, result>>
  /\ UNCHANGED <<handlerVars, stored>>

\* let token = await redisClient.get(redisKey); if (token) ...
GatGet(p) ==
  /\ pc[p] = "gat_get"
  /\ \/ LET token == cache.val IN
          IF token # NoToken
            THEN /\ gat' = [gat EXCEPT ![p].read = "hit", ![p].found = token]
                 /\ pc' = [pc EXCEPT ![p] = "gat_hit_quit"]
            ELSE /\ gat' = [gat EXCEPT ![p].read = "miss"]
                 /\ pc' = [pc EXCEPT ![p] = "gat_vendor"]
     \/ /\ gat' = [gat EXCEPT ![p].read = "error", ![p].errs = @ \cup {"get"}]
        /\ pc' = [pc EXCEPT ![p] = "gat_read_catch"]
  /\ UNCHANGED <<cache, clock, args, retry, redisClient, redisClientDel, conns,
                 requests, responses, dels, result>>
  /\ UNCHANGED <<handlerVars, stored>>

\* the cache hit: await redisClient.quit(); return token  (inside the inner try)
GatHitQuit(p) ==
  /\ pc[p] = "gat_hit_quit"
  /\ \/ /\ conns' = [conns EXCEPT ![p] = QuitConn(@, redisClient[p], TRUE)]
        /\ GatReturn(p, gat[p], gat[p].found)
     \/ /\ conns' = [conns EXCEPT ![p] = QuitConn(@, redisClient[p], FALSE)]
        /\ gat' = [gat EXCEPT ![p].errs = @ \cup {"quit"}]
        /\ pc' = [pc EXCEPT ![p] = "gat_read_catch"]
  /\ UNCHANGED <<cache, clock, args, retry, redisClient, redisClientDel,
                 requests, responses, dels, result>>
  /\ UNCHANGED <<handlerVars, stored>>

\* mutant of GatReadCatch: the reference is dropped without quit
GatReadCatchLeak(p) ==
  /\ pc[p] = "gat_read_catch"
  /\ redisClient' = [redisClient EXCEPT ![p] = NoClient]
  /\ pc' = [pc EXCEPT ![p] = "gat_vendor"]
  /\ UNCHANGED <<cache, clock, args, retry, redisClientDel, conns, gat, requests,
                 responses, dels, result>>
  /\ UNCHANGED <<handlerVars, stored>>

\* catch (redisError): if (redisClient) { try quit catch ignore; redisClient = null }
GatReadCatch(p) ==
  /\ pc[p] = "gat_read_catch"
  /\ \E ok \in BOOLEAN :
       conns' = [conns EXCEPT ![p] = QuitConn(@, redisClient[p], ok)]
  /\ redisClient' = [redisClient EXCEPT ![p] = NoClient]
  /\ pc' = [pc EXCEPT ![p] = "gat_vendor"]
  /\ UNCHANGED <<cache, clock, args, retry, redisClientDel, gat, requests,
                 responses, dels, result>>
  /\ UNCHANGED <<handlerVars, stored>>

\* after the token arrived: re-open when no client is held, else save
AfterToken(p) == IF redisClient[p] = NoClient THEN "gat_reopen" ELSE "gat_set"

\* await axios.get(token endpoint); the checks of the envelope; the ttl
GatVendor(p) ==
  /\ pc[p] = "gat_vendor"
  /\ \E r \in TokenResponses :
       IF r.http /\ TokenAccepted(r)
         THEN /\ gat' = [gat EXCEPT ![p].tokenCalls = @ + 1, ![p].resp = r,
                                    ![p].ttl = TtlOf(r.expire_time)]
              /\ pc' = [pc EXCEPT ![p] = AfterToken(p)]
         ELSE /\ gat' = [gat EXCEPT ![p].tokenCalls = @ + 1, ![p].resp = r]
              /\ pc' = [pc EXCEPT ![p] = "gat_outer_catch"]
  /\ UNCHANGED <<cache, clock, args, retry, redisClient, redisClientDel, conns,
                 requests, responses, dels, result>>
  /\ UNCHANGED <<handlerVars, stored>>

\* mutant of GatReopen: the failure to re-open is not caught
GatReopenUncaught(p) ==
  /\ pc[p] = "gat_reopen"
  /\ \/ /\ conns' = [conns EXCEPT ![p] = Connected(@)]
        /\ redisClient' = [redisClient EXCEPT ![p] = Len(conns[p]) + 1]
        /\ pc' = [pc EXCEPT ![p] = "gat_set"]
        /\ UNCHANGED gat
     \/ /\ gat' = [gat EXCEPT ![p].errs = @ \cup {"reopen"}]
        /\ pc' = [pc EXCEPT ![p] = "gat_outer_catch"]
        /\ UNCHANGED <<conns, redisClient>>
  /\ UNCHANGED <<cache, clock, args, retry, redisClientDel, requests, responses,
                 dels, result>>
  /\ UNCHANGED <<handlerVars, stored>>

\* if (!redisClient) try { redisClient = await getRedisClient() } catch { log }
GatReopen(p) ==
  /\ pc[p] = "gat_reopen"
  /\ \/ /\ conns' = [conns EXCEPT ![p] = Connected(@)]
        /\ redisClient' = [redisClient EXCEPT ![p] = Len(conns[p]) + 1]
        /\ pc' = [pc EXCEPT ![p] = "gat_set"]
        /\ UNCHANGED gat
     \/ /\ GatReturn(p, [gat[p] EXCEPT !.errs = @ \cup {"reopen"}], gat[p].resp.access_token)
        /\ UNCHANGED <<conns, redisClient>>
  /\ UNCHANGED <<cache, clock, args, retry, redisClientDel, requests, responses,
                 dels, result>>
  /\ UNCHANGED <<handlerVars, stored>>

\* mutant of GatSet: the key is written only when it is absent (SET NX)
GatSetIfAbsent(p) ==
  /\ pc[p] = "gat_set"
  /\ IF ShouldCache(gat[p].ttl)
       THEN \/ /\ cache' = IF cache.val = NoToken
                             THEN [val |-> gat[p].resp.access_token, ttl |-> gat[p].ttl]
                             ELSE cache
               /\ stored' = cache'
               /\ gat' = [gat EXCEPT ![p].sets = @ + 1, ![p].setTtl = gat[p].ttl]
            \/ /\ gat' = [gat EXCEPT ![p].sets = @ + 1, ![p].setTtl = gat[p].ttl,
                                     ![p].errs = @ \cup {"set"}]
               /\ UNCHANGED <<cache, stored>>
       ELSE UNCHANGED <<cache, stored, gat>>
  /\ pc' = [pc EXCEPT ![p] = "gat_final_quit"]
  /\ UNCHANGED <<clock, args, retry, redisClient, redisClientDel, conns,
                 requests, responses, dels, result>>
  /\ UNCHANGED handlerVars

\* if (ttl > 0) await redisClient.set(redisKey, token, { EX: ttl }) else warn
GatSet(p) ==
  /\ pc[p] = "gat_set"
  /\ IF ShouldCache(gat[p].ttl)
       THEN \/ /\ cache' = [val |-> gat[p].resp.access_token, ttl |-> gat[p].ttl]
               /\ stored' = cache'
               /\ gat' = [gat EXCEPT ![p].sets = @ + 1, ![p].setTtl = gat[p].ttl]
            \/ /\ gat' = [gat EXCEPT ![p].sets = @ + 1, ![p].setTtl = gat[p].ttl,
                                     ![p].errs = @ \cup {"set"}]
               /\ UNCHANGED <<cache, stored>>
       ELSE UNCHANGED <<cache, stored, gat>>
  /\ pc' = [pc EXCEPT ![p] = "gat_final_quit"]
  /\ UNCHANGED <<clock, args, retry, redisClient, redisClientDel, conns,
                 requests, responses, dels, result>>
  /\ UNCHANGED handlerVars

\* finally { try { await redisClient.quit(); redisClient = null } catch { log } }
\* return token
GatFinalQuit(p) ==
  /\ pc[p] = "gat_final_quit"
  /\ \E ok \in BOOLEAN :
       /\ conns' = [conns EXCEPT ![p] = QuitConn(@, redisClient[p], ok)]
       /\ redisClient' = [redisClient EXCEPT ![p] = IF ok THEN NoClient ELSE @]
       /\ GatReturn(p, [gat[p] EXCEPT !.errs = IF ok THEN @ ELSE @ \cup {"quit"}],
                    gat[p].resp.access_token)
  /\ UNCHANGED <<cache, clock, args, retry, redisClientDel, requests, responses,
                 dels, result>>
  /\ UNCHANGED <<handlerVars, stored>>

\* catch (error) { if (redisClient) try quit; throw error }, and the rethrow
\* of makeCustomRequest's own catch
GatOuterCatch(p) ==
  /\ pc[p] = "gat_outer_catch"
  /\ IF redisClient[p] # NoClient
       THEN \E ok \in BOOLEAN :
              conns' = [conns EXCEPT ![p] = QuitConn(@, redisClient[p], ok)]
       ELSE UNCHANGED conns
  /\ gat' = [gat EXCEPT ![p].out = "raised"]
  /\ result' = [result EXCEPT ![p] = [kind |-> "raised", data |-> NoEnvelope]]
  /\ pc' = [pc EXCEPT ![p] = "done"]
  /\ UNCHANGED <<cache, clock, args, retry, redisClient, redisClientDel,
                 requests, responses, dels>>
  /\ UNCHANGED <<handlerVars, stored>>

\* -------------------------------------------------------- makeCustomRequest

\* the requestConfig handed to axios, signed at Date.now() = now
RequestConfig(a, access_token, now) ==
  LET method == ToUpperCase(a.method)
      body == BodyOf(a.data)
      signed == generateSign(method, a.path, body, access_token, now)
  IN [method |-> method,
      path |-> a.path,
      client_id |-> signed.clientId,
      access_token |-> access_token,
      sign |-> signed.sign,
      t |-> signed.timestamp,
      data |-> IF CarriesData(a.data, method) THEN Stringify(a.data) ELSE ""]

\* makeCustomRequest(method, path, data) is called: it awaits getAccessToken()
McrCall(p) ==
  /\ pc[p] = "start"
  /\ EnterGetAccessToken(p)
  /\ UNCHANGED <<cache, clock, args, retry, redisClientDel, conns, requests,
                 responses, dels, result>>
  /\ UNCHANGED <<handlerVars, stored>>

\* body, generateSign, requestConfig, then axios(requestConfig) is awaited
McrRequest(p) ==
  /\ pc[p] = "mcr_request"
  /\ IF CredentialsSet(env)
       THEN /\ requests' = [requests EXCEPT
                    ![p] = Append(@, RequestConfig(args[p], gat[p].tok, clock))]
            /\ pc' = [pc EXCEPT ![p] = "mcr_await"]
            /\ UNCHANGED result
       ELSE \* generateSign throws "Missing Tuya credentials"
            /\ result' = [result EXCEPT
                            ![p] = [kind |-> "raised", data |-> NoEnvelope]]
            /\ pc' = [pc EXCEPT ![p] = "done"]
            /\ UNCHANGED requests
  /\ UNCHANGED <<cache, clock, args, retry, redisClient, redisClientDel, conns,
                 gat, responses, dels>>
  /\ UNCHANGED <<handlerVars, stored>>

\* mutant of Recurse: the recursive call leaves retry at its default
RecurseRetrying(p) ==
  /\ retry' = retry
  /\ clock' \in {clock, clock + 1}
  /\ EnterGetAccessToken(p)

\* return makeCustomRequest(method, path, data, false); the clock may have
\* moved on since the first request was signed
Recurse(p) ==
  /\ retry' = [retry EXCEPT ![p] = FALSE]
  /\ clock' \in {clock, clock + 1}
  /\ EnterGetAccessToken(p)

\* await axios(requestConfig): a rejection (no response, or a status that
\* validateStatus refuses) is caught and thrown again; else the 1010 check,
\* else return response.data
McrResponse(p) ==
  /\ pc[p] = "mcr_await"
  /\ \E r \in ResourceResponses(Len(requests[p])) :
       /\ responses' = [responses EXCEPT ![p] = Append(@, r)]
       /\ IF r.kind = "network" \/ ~ValidateStatus(r.data.status)
            THEN /\ result' = [result EXCEPT
                                 ![p] = [kind |-> "raised", data |-> NoEnvelope]]
                 /\ pc' = [pc EXCEPT ![p] = "done"]
            ELSE IF IsInvalidToken(r.data, retry[p])
                   THEN /\ pc' = [pc EXCEPT ![p] = "mcr_del_open"]
                        /\ UNCHANGED result
                   ELSE /\ result' = [result EXCEPT
                                        ![p] = [kind |-> "returned", data |-> r.data]]
                        /\ pc' = [pc EXCEPT ![p] = "done"]
  /\ UNCHANGED <<cache, clock, args, retry, redisClient, redisClientDel, conns,
                 gat, requests, dels>>
  /\ UNCHANGED <<handlerVars, stored>>

\* redisClientDel = await getRedisClient(); a failure is logged, then the retry
McrDelOpen(p) ==
  /\ pc[p] = "mcr_del_open"
  /\ \/ /\ conns' = [conns EXCEPT ![p] = Connected(@)]
        /\ redisClientDel' = [redisClientDel EXCEPT ![p] = Len(conns[p]) + 1]
        /\ pc' = [pc EXCEPT ![p] = "mcr_del"]
        /\ UNCHANGED <<dels, retry, gat, redisClient, clock>>
     \/ /\ dels' = [dels EXCEPT ![p] = Append(@, "noclient")]
        /\ redisClientDel' = [redisClientDel EXCEPT ![p] = NoClient]
        /\ Recurse(p)
        /\ UNCHANGED conns
  /\ UNCHANGED <<cache, args, requests, responses, result>>
  /\ UNCHANGED <<handlerVars, stored>>

\* mutant of McrDel: del reports success and removes nothing
McrDelKeeps(p) ==
  /\ pc[p] = "mcr_del"
  /\ dels' = [dels EXCEPT ![p] = Append(@, "deleted")]
  /\ pc' = [pc EXCEPT ![p] = "mcr_del_quit"]
  /\ UNCHANGED <<cache, stored, clock, args, retry, redisClient, redisClientDel,
                 conns, gat, requests, responses, result>>
  /\ UNCHANGED handlerVars

\* await redisClientDel.del("tuya_token")
McrDel(p) ==
  /\ pc[p] = "mcr_del"
  /\ \/ /\ cache' = EmptyCache
        /\ stored' = EmptyCache
        /\ dels' = [dels EXCEPT ![p] = Append(@, "deleted")]
     \/ /\ dels' = [dels EXCEPT ![p] = Append(@, "failed")]
        /\ UNCHANGED <<cache, stored>>
  /\ pc' = [pc EXCEPT ![p] = "mcr_del_quit"]
  /\ UNCHANGED <<clock, args, retry, redisClient, redisClientDel, conns, gat,
                 requests, responses, result>>
  /\ UNCHANGED handlerVars

\* finally { if (redisClientDel) try quit catch ignore }, then the retry
McrDelQuit(p) ==
  /\ pc[p] = "mcr_del_quit"
  /\ \E ok \in BOOLEAN :
       conns' = [conns EXCEPT ![p] = QuitConn(@, redisClientDel[p], ok)]
  /\ Recurse(p)
  /\ UNCHANGED <<cache, args, redisClientDel, requests, responses, dels, result>>
  /\ UNCHANGED <<handlerVars, stored>>

\* ------------------------------------------------------ the exported handler

Absent == ""                 \* a query parameter that is missing or empty (falsy)
NotAString == "['on','off']" \* a repeated query parameter: an array, not a string
SyntaxError == "SyntaxError" \* what JSON.parse throws

\* String.prototype.toLowerCase on the commands in use
ToLowerCase(c) == IF c = "OFF" THEN "off" ELSE IF c = "ON" THEN "on" ELSE c

\* JSON.parse(queryParams.data)
JsonParse(text) == IF text = "{\"commands\":[]}" THEN "{commands}" ELSE SyntaxError

\* queryParams.path.startsWith('/') ? queryParams.path : `/${queryParams.path}`
WithSlash(path) == IF path = "/v1.0/devices/d1" THEN path ELSE "/" \o path

\* parseFloat(value): the number, in tenths of the returned quotient; NaN is -1
NaN == 0 - 1
ParseFloat(value) == IF value = "235" THEN 235 ELSE NaN

\* result.result[0]?.value of a status envelope: undefined when the shape is
\* not the expected one
Undefined == "undefined"
StatusValues == {"235", "true", Undefined}

Query(action, id, command, code, path, method, data) ==
  [action |-> action, id |-> id, command |-> command, code |-> code,
   path |-> path, method |-> method, data |-> data]

\* the invocation is looked at from makeCustomRequest on
NoQuery == Query("-", Absent, Absent, Absent, Absent, Absent, Absent)

QuerySet ==
  {Query(Absent, Absent, Absent, Absent, Absent, Absent, Absent),
   Query("test", "d1", Absent, Absent, Absent, Absent, Absent),
   Query("reboot", "d1", "on", Absent, Absent, Absent, Absent),
   Query("request", Absent, Absent, Absent, Absent, "post", Absent),
   Query("request", Absent, Absent, Absent, "v1.0/devices/d1", Absent, Absent),
   Query("request", Absent, Absent, Absent, "/v1.0/devices/d1", "post",
         "{\"commands\":[]}"),
   Query("request", Absent, Absent, Absent, "/v1.0/devices/d1", "post", "{commands"),
   Query("status", Absent, Absent, Absent, Absent, Absent, Absent),
   Query("status", "d1", Absent, Absent, Absent, Absent, Absent),
   Query("devices", Absent, Absent, Absent, Absent, Absent, Absent),
   Query("state", Absent, Absent, Absent, Absent, Absent, Absent),
   Query("state", "d1", Absent, Absent, Absent, Absent, Absent),
   Query("control", Absent, "on", Absent, Absent, Absent, Absent),
   Query("control", "d1", Absent, Absent, Absent, Absent, Absent),
   Query("control", "d1", "on", Absent, Absent, Absent, Absent),
   Query("control", "d1", "OFF", "switch_2", Absent, Absent, Absent),
   Query("control", "d1", "up", Absent, Absent, Absent, Absent),
   Query("control", "d1", NotAString, Absent, Absent, Absent, Absent)}

\* what the handler resolves with: an object (success, message and, where the
\* source attaches it, the vendor's envelope), or the bare number of status
NoReply ==
  [kind |-> "pending", success |-> FALSE, message |-> "", value |-> 0,
   data |-> NoEnvelope]
Object(success, message, data) ==
  [kind |-> "object", success |-> success, message |-> message, value |-> 0,
   data |-> data]
Number(value) ==
  [kind |-> "number", success |-> FALSE, message |-> "", value |-> value,
   data |-> NoEnvelope]

MissingCredentials == Object(FALSE, "Server error: Missing Tuya credentials.", NoEnvelope)
InvalidJson == Object(FALSE, "Invalid JSON format in data parameter", NoEnvelope)
InvalidCommand ==
  Object(FALSE, "Invalid command. Only \"on\" or \"off\" are supported.", NoEnvelope)
UnknownAction ==
  Object(FALSE, "Unknown action or missing required parameters.", NoEnvelope)
InternalError == Object(FALSE, "Internal error processing Tuya request.", NoEnvelope)

\* const action = queryParams.action || 'test'
ActionOf(q) == IF q.action # Absent THEN q.action ELSE "test"

\* mutant of ValidCommand: every command is sent
ValidCommandAny(command) == TRUE

\* command !== 'on' && command !== 'off'  (negated)
ValidCommand(command) == command = "on" \/ command = "off"

\* return <value>: the handler's promise resolves
Resolve(p, value) ==
  /\ reply' = [reply EXCEPT ![p] = value]
  /\ pc' = [pc EXCEPT ![p] = "resolved"]
  /\ UNCHANGED args

\* const result = await makeCustomRequest(method, path, data)
Await(p, method, path, data) ==
  /\ args' = [args EXCEPT ![p] = [method |-> method, path |-> path, data |-> data]]
  /\ pc' = [pc EXCEPT ![p] = "start"]
  /\ UNCHANGED reply

\* mutant of Route: a known action that lacks its parameters is requested
\* from the vendor all the same
RouteUnchecked(p, q) ==
  LET action == ActionOf(q) IN
    IF action = "test"
      THEN Resolve(p, Object(TRUE, "Tuya module working", NoEnvelope))
    ELSE IF action = "request" /\ q.path # Absent
      THEN Await(p, "GET", WithSlash(q.path), NoData)
    ELSE IF action \in {"status", "state", "control"}
      THEN Await(p, "GET", "/v1.0/devices/" \o q.id, NoData)
    ELSE IF action = "devices"
      THEN Await(p, "GET", "/v1.0/users/me/devices", NoData)
    ELSE Resolve(p, UnknownAction)

\* the try block of the handler up to its await or its return
Route(p, q) ==
  LET action == ActionOf(q) IN
    IF action = "test"
      THEN Resolve(p, Object(TRUE, "Tuya module working", NoEnvelope))
    ELSE IF action = "request" /\ q.path # Absent
      THEN IF q.data # Absent /\ JsonParse(q.data) = SyntaxError
             THEN Resolve(p, InvalidJson)
             ELSE Await(p,
                        ToUpperCase(IF q.method # Absent THEN q.method ELSE "GET"),
                        WithSlash(q.path),
                        IF q.data # Absent THEN JsonParse(q.data) ELSE NoData)
    ELSE IF action = "status" /\ q.id # Absent
      THEN Await(p, "GET", "/v1.0/iot-03/devices/" \o q.id \o "/status", NoData)
    ELSE IF action = "devices"
      THEN Await(p, "GET", "/v1.0/users/me/devices", NoData)
    ELSE IF action = "state" /\ q.id # Absent
      THEN Await(p, "GET", "/v1.0/devices/" \o q.id, NoData)
    ELSE IF action = "control" /\ q.id # Absent /\ q.command # Absent
      THEN IF q.command = NotAString
             THEN Resolve(p, InternalError)   \* toLowerCase is not a function
           ELSE IF ~ValidCommand(ToLowerCase(q.command))
             THEN Resolve(p, InvalidCommand)
           ELSE Await(p, "POST", "/v1.0/devices/" \o q.id \o "/commands",
                      Payload(IF q.code # Absent THEN q.code ELSE "switch_1",
                              ToLowerCase(q.command) = "on"))
    ELSE Resolve(p, UnknownAction)

\* the handler is called with queryParams[p]: the credentials check, then the
\* routing, up to the first await
HandlerCall(p) ==
  /\ pc[p] = "handler"
  /\ IF ~CredentialsSet(env)
       THEN Resolve(p, MissingCredentials)
       ELSE Route(p, queryParams[p])
  /\ UNCHANGED <<cache, clock, retry, redisClient, redisClientDel, conns, gat,
                 requests, responses, dels, result, env, queryParams, stored>>

\* how each action reshapes the envelope makeCustomRequest returned
Reshape(q, data, value) ==
  LET action == ActionOf(q) IN
    IF action = "request" THEN Object(data.success, "Request processed.", data)
    ELSE IF action = "status"
      THEN IF data.success /\ value # Undefined
             THEN Number(ParseFloat(value))
             ELSE Object(FALSE, "Failed to parse device status data", data)
    ELSE IF action = "devices"
      THEN Object(data.success,
                  IF data.success THEN "Tuya device list retrieved"
                                  ELSE "Error getting device list", data)
    ELSE IF action = "state"
      THEN Object(data.success,
                  IF data.success THEN "State for device"
                                  ELSE "Error getting state", data)
    ELSE Object(data.success,
                IF data.success THEN "Command successfully sent to device"
                                ELSE "Error sending command to device", data)

\* what result.result[0]?.value can be in the envelope data: only the status
\* action of a successful envelope looks at it
ValuesOf(q, data) ==
  IF ActionOf(q) = "status" /\ data.success THEN StatusValues ELSE {Undefined}

\* makeCustomRequest has returned or raised: the rest of the action's branch,
\* or the catch block of the handler
HandlerReturn(p) ==
  /\ pc[p] = "done"
  /\ queryParams[p] # NoQuery
  /\ IF result[p].kind = "raised"
       THEN reply' = [reply EXCEPT ![p] = InternalError]
       ELSE \E value \in ValuesOf(queryParams[p], result[p].data) :
              reply' = [reply EXCEPT
                          ![p] = Reshape(queryParams[p], result[p].data, value)]
  /\ pc' = [pc EXCEPT ![p] = "resolved"]
  /\ UNCHANGED <<cache, clock, args, retry, redisClient, redisClientDel, conns,
                 gat, requests, responses, dels, result, env, queryParams, stored>>

\* ------------------------------------------------------------------- Redis

\* the TTL of the entry under "tuya_token" elapses: Redis removes the key
Expire ==
  /\ cache.val # NoToken
  /\ cache' = EmptyCache
  /\ UNCHANGED <<clock, pc, args, retry, redisClient, redisClientDel, conns, gat,
                 requests, responses, dels, result, handlerVars, stored>>

\* ---------------------------------------------------------- specification

Args == [method : Methods, path : Paths, data : Data]
Idle == [method |-> "get", path |-> "/v1.0/devices/d1/commands", data |-> NoData]

\* the cache as an earlier call may have left it: empty, or a token with its ttl
CachedStates ==
  {EmptyCache} \cup
  [val : Tokens, ttl : {TtlOf(SafetyMargin + MaxOver)}]

InitOf(active) ==
  /\ cache \in CachedStates
  /\ clock = 0
  /\ pc = [p \in Procs |-> IF p \in active THEN "start" ELSE "idle"]
  /\ args \in {f \in [Procs -> Args] : \A p \in Procs \ active : f[p] = Idle}
  /\ retry = [p \in Procs |-> TRUE]
  /\ redisClient = [p \in Procs |-> NoClient]
  /\ redisClientDel = [p \in Procs |-> NoClient]
  /\ conns = [p \in Procs |-> <<>>]
  /\ gat = [p \in Procs |-> NewGat]
  /\ requests = [p \in Procs |-> <<>>]
  /\ responses = [p \in Procs |-> <<>>]
  /\ dels = [p \in Procs |-> <<>>]
  /\ result = [p \in Procs |-> Pending]
  /\ env = [TUYA_CLIENT_ID |-> TRUE, TUYA_CLIENT_SECRET |-> TRUE]
  /\ queryParams = [p \in Procs |-> NoQuery]
  /\ reply = [p \in Procs |-> NoReply]
  /\ stored = cache

\* one invocation of makeCustomRequest
Init == InitOf({1})

Step(p) ==
  \/ McrCall(p)
  \/ GatOpen(p)
  \/ GatGet(p)
  \/ GatHitQuit(p)
  \/ GatReadCatch(p)
  \/ GatVendor(p)
  \/ GatReopen(p)
  \/ GatSet(p)
  \/ GatFinalQuit(p)
  \/ GatOuterCatch(p)
  \/ McrRequest(p)
  \/ McrResponse(p)
  \/ McrDelOpen(p)
  \/ McrDel(p)
  \/ McrDelQuit(p)

Next == \E p \in Procs : Step(p)

Spec == Init /\ [][Next]_vars

\* every awaited call returns or fails, so an invocation that can take a step
\* takes it
Fairness == \A p \in Procs : WF_vars(Step(p))

\* one invocation with fixed arguments: method, path and data steer no branch
LiveInit == Init /\ args[1] = Idle

LiveSpec == LiveInit /\ [][Next]_vars /\ Fairness

\* one invocation that starts with an empty cache, and the entries it writes
\* may expire at any time
TtlInit == Init /\ cache = EmptyCache /\ args[1] = Idle

TtlNext == Next \/ Expire

TtlSpec == TtlInit /\ [][TtlNext]_vars

\* two invocations of makeCustomRequest run concurrently on an empty cache
ConcInit == InitOf(Procs) /\ cache = EmptyCache /\ \A p \in Procs : args[p] = Idle

\* the cache faults invocation p has met in its running getAccessToken call
\* and in its delete block
Faults(p) ==
  Cardinality(gat[p].errs) + (IF dels[p] \in {<<>>, <<"deleted">>} THEN 0 ELSE 1)

\* the surroundings of the concurrent runs: at most one cache fault in all,
\* the token endpoint fails or issues a token that lives one second longer
\* than the margin, the resource endpoint accepts the token or rejects it
\* with 1010, and the clock stands still
Calm ==
  /\ Faults(1) + Faults(2) <= 1
  /\ clock = 0
  /\ \A p \in Procs :
       /\ gat[p].resp = NoResponse
            \/ (gat[p].resp.http /\ gat[p].resp.access_token # NoToken
                  /\ gat[p].resp.expire_time = SafetyMargin + 1)
       /\ \A i \in 1..Len(responses[p]) :
            /\ responses[p][i].kind = "http"
            /\ responses[p][i].data.status = 200
            /\ responses[p][i].data.code \in {0, InvalidTokenCode}

ConcStep(p) ==
  \/ McrCall(p) /\ Calm'
  \/ GatOpen(p) /\ Calm'
  \/ GatGet(p) /\ Calm'
  \/ GatHitQuit(p) /\ Calm'
  \/ GatReadCatch(p) /\ Calm'
  \/ GatVendor(p) /\ Calm'
  \/ GatReopen(p) /\ Calm'
  \/ GatSet(p) /\ Calm'
  \/ GatFinalQuit(p) /\ Calm'
  \/ GatOuterCatch(p) /\ Calm'
  \/ McrRequest(p) /\ Calm'
  \/ McrResponse(p) /\ Calm'
  \/ McrDelOpen(p) /\ Calm'
  \/ McrDel(p) /\ Calm'
  \/ McrDelQuit(p) /\ Calm'

ConcNext == \E p \in Procs : ConcStep(p)

ConcSpec == ConcInit /\ [][ConcNext]_vars

\* one call of the exported handler, for every setting of the credentials
HandlerInit ==
  /\ cache = EmptyCache
  /\ stored = cache
  /\ clock = 0
  /\ pc = [p \in Procs |-> IF p = 1 THEN "handler" ELSE "idle"]
  /\ args = [p \in Procs |-> Idle]
  /\ retry = [p \in Procs |-> TRUE]
  /\ redisClient = [p \in Procs |-> NoClient]
  /\ redisClientDel = [p \in Procs |-> NoClient]
  /\ conns = [p \in Procs |-> <<>>]
  /\ gat = [p \in Procs |-> NewGat]
  /\ requests = [p \in Procs |-> <<>>]
  /\ responses = [p \in Procs |-> <<>>]
  /\ dels = [p \in Procs |-> <<>>]
  /\ result = [p \in Procs |-> Pending]
  /\ env \in [TUYA_CLIENT_ID : BOOLEAN, TUYA_CLIENT_SECRET : BOOLEAN]
  /\ \E q \in QuerySet : queryParams = [p \in Procs |-> IF p = 1 THEN q ELSE NoQuery]
  /\ reply = [p \in Procs |-> NoReply]

HandlerNext == \E p \in Procs : HandlerCall(p) \/ Step(p) \/ HandlerReturn(p)

HandlerSpec == HandlerInit /\ [][HandlerNext]_vars

\* ------------------------------------------------------------------ claims

\* the resource response r is a decoded envelope with the code 1010
Sentinel(r) == r.kind = "http" /\ r.data.status < 500 /\ r.data.code = 1010

\* the resource request got no envelope: no response, or an HTTP status >= 500
Failed(r) == r.kind = "network" \/ r.data.status >= 500

\* the getAccessToken call of p has returned or raised
GatOver(p) == gat[p].out # "pending"

\* C1: when every resource request of one makeCustomRequest call (retry
\* enabled) is answered with a 1010 envelope and both tokens were obtained, the
\* resource endpoint has been called exactly twice when the call ends and the
\* caller gets the envelope of the second call unchanged, whatever the cache
\* delete did; never more than two resource requests are sent.
C1_SentinelTwice ==
  \A p \in Procs :
    /\ Len(requests[p]) <= 2
    /\ (/\ pc[p] = "done"
        /\ Len(responses[p]) > 0
        /\ \A i \in 1..Len(responses[p]) : Sentinel(responses[p][i])
        /\ gat[p].out # "raised")
       => /\ Len(requests[p]) = 2
          /\ Len(responses[p]) = 2
          /\ result[p] = [kind |-> "returned", data |-> responses[p][2].data]
          /\ result[p].data.tid = 2

\* C1 witness: two 1010 answers, the cache delete in between failed
C1_Witness ==
  /\ pc[1] = "done"
  /\ Len(responses[1]) = 2
  /\ Sentinel(responses[1][1]) /\ Sentinel(responses[1][2])
  /\ dels[1] = <<"failed">>
  /\ result[1].kind = "returned"

\* C2 (as claimed): a getAccessToken call whose cache read found a token makes
\* no call to the token endpoint and returns the cached value; a call whose
\* read found nothing makes exactly one call; for every outcome of open, get
\* and quit.
C2_HitMakesNoVendorCall ==
  \A p \in Procs :
    /\ gat[p].read = "hit"
         => /\ gat[p].tokenCalls = 0
            /\ gat[p].out # "raised"
            /\ gat[p].out = "returned" => gat[p].tok = gat[p].found
    /\ (gat[p].read = "miss" /\ GatOver(p)) => gat[p].tokenCalls = 1

\* C3 (as claimed): whenever getAccessToken has returned or raised, and
\* whenever the delete block of makeCustomRequest is over, every connection
\* the invocation opened so far has had quit called on it exactly once.
C3_QuitExactlyOnce ==
  \A p \in Procs :
    pc[p] \in {"gat_open", "mcr_request", "mcr_await", "mcr_del_open", "done"}
      => \A c \in 1..Len(conns[p]) : conns[p][c].quits = 1

\* C4: when the token endpoint answered with a token, no cache failure is
\* raised: getAccessToken returns the vendor's token, the resource request is
\* sent with it, and a successful answer is returned to the caller.
C4_CacheFailuresNotRaised ==
  \A p \in Procs :
    (gat[p].resp.http /\ gat[p].resp.success /\ gat[p].resp.access_token # NoToken)
      => /\ gat[p].out # "raised"
         /\ pc[p] # "gat_outer_catch"
         /\ GatOver(p) => gat[p].tok = gat[p].resp.access_token
         /\ pc[p] \in {"mcr_await", "mcr_del_open", "mcr_del", "mcr_del_quit", "done"}
              => requests[p][Len(requests[p])].access_token
                   = gat[p].resp.access_token
         /\ (/\ pc[p] = "done"
             /\ ~Failed(responses[p][Len(responses[p])]))
              => result[p] = [kind |-> "returned",
                              data |-> responses[p][Len(responses[p])].data]

\* C4 witness: the cache was unreachable at read time and at save time, and
\* the call still ended with the vendor's successful answer
C4_Witness ==
  /\ pc[1] = "done"
  /\ gat[1].errs = {"open", "reopen"}
  /\ gat[1].tok = gat[1].resp.access_token /\ gat[1].tok # NoToken
  /\ conns[1] = <<>>
  /\ result[1].kind = "returned" /\ result[1].data.success

\* C5 (as claimed): no cache set is performed for any expire_time <= 60.
C5_NoSetUpToMargin ==
  \A p \in Procs :
    (gat[p].tokenCalls > 0 /\ gat[p].resp.http /\ gat[p].resp.success
       /\ gat[p].resp.access_token # NoToken /\ gat[p].resp.expire_time <= 60)
      => gat[p].sets = 0

\* C5 (amended): no cache set is performed for any expire_time <= 0, and the
\* token is still returned to the caller; a token with 0 < expire_time <= 60
\* is written whenever a connection is held, with TTL = expire_time.
C5_NoSetWhenNotPositive ==
  \A p \in Procs :
    (gat[p].tokenCalls > 0 /\ gat[p].resp.http /\ gat[p].resp.success
       /\ gat[p].resp.access_token # NoToken)
      => /\ gat[p].resp.expire_time <= 0
              => /\ gat[p].sets = 0
                 /\ GatOver(p) => (gat[p].out = "returned"
                                    /\ gat[p].tok = gat[p].resp.access_token)
         /\ (gat[p].resp.expire_time > 0 /\ gat[p].resp.expire_time <= 60
               /\ pc[p] = "gat_final_quit")
              => gat[p].sets = 1 /\ gat[p].setTtl = gat[p].resp.expire_time

\* C5 witness: a token with expire_time 0 came back while a connection was
\* held, and was returned without a set
C5_Witness ==
  /\ gat[1].read = "miss"
  /\ gat[1].tokenCalls = 1
  /\ gat[1].resp.access_token # NoToken
  /\ gat[1].resp.expire_time = 0
  /\ gat[1].out = "returned"
  /\ gat[1].sets = 0

\* C6: a getAccessToken call issues at most one set; the TTL it passes is
\* expire_time - 60 when expire_time > 60 and expire_time otherwise; the set
\* is issued only for a positive TTL, so the stored TTL is at least 1 and at
\* most expire_time.
C6_TtlOfWrite ==
  /\ cache.val # NoToken => cache.ttl >= 1
  /\ \A p \in Procs :
    /\ gat[p].sets <= 1
    /\ gat[p].sets = 1
         => /\ gat[p].setTtl = IF gat[p].resp.expire_time > 60
                                 THEN gat[p].resp.expire_time - 60
                                 ELSE gat[p].resp.expire_time
            /\ gat[p].setTtl >= 1
            /\ gat[p].setTtl <= gat[p].resp.expire_time

\* C6 witness: expire_time 61 was written with TTL 1
C6_Witness ==
  /\ gat[1].sets = 1
  /\ gat[1].resp.expire_time = 61
  /\ gat[1].setTtl = 1
  /\ cache = [val |-> gat[1].resp.access_token, ttl |-> 1]

\* C7: a cache delete and a second resource request happen only after a first
\* answer with the code 1010, with retry true; every other envelope that ends
\* the call (any other code, and 1010 when retry is false) is returned to the
\* caller unchanged, and the step that returns it neither touches the cache
\* nor issues a further command or request.
C7_Inv ==
  \A p \in Procs :
    /\ Len(dels[p]) <= 1
    /\ pc[p] \in {"mcr_del_open", "mcr_del", "mcr_del_quit"} => retry[p]
    /\ (\/ Len(dels[p]) > 0
        \/ pc[p] \in {"mcr_del_open", "mcr_del", "mcr_del_quit"}
        \/ Len(requests[p]) > 1)
         => Len(responses[p]) >= 1 /\ Sentinel(responses[p][1])
    /\ (/\ pc[p] = "done" /\ Len(responses[p]) > 0
        /\ ~Failed(responses[p][Len(responses[p])])
        /\ ~(Sentinel(responses[p][Len(responses[p])]) /\ Len(responses[p]) = 1))
         => /\ result[p] = [kind |-> "returned",
                            data |-> responses[p][Len(responses[p])].data]
            /\ Len(requests[p]) = Len(responses[p])
            /\ Len(dels[p]) = Len(responses[p]) - 1

C7_Frame ==
  \A p \in Procs :
    (pc[p] = "mcr_await" /\ pc'[p] = "done")
      => /\ cache' = cache
         /\ conns' = conns
         /\ dels' = dels
         /\ requests' = requests
         /\ gat' = gat

C7_RetryOnlyOnSentinel == []C7_Inv /\ [][C7_Frame]_vars

\* C7 witness: the first answer is a failure envelope with another code, and
\* it is what the caller gets; nothing was deleted, nothing sent again
C7_Witness ==
  /\ pc[1] = "done"
  /\ Len(responses[1]) = 1
  /\ responses[1][1].data.code = 1004 /\ responses[1][1].data.status = 401
  /\ result[1] = [kind |-> "returned", data |-> responses[1][1].data]
  /\ dels[1] = <<>>
  /\ Len(requests[1]) = 1

\* the token endpoint failed: axios rejected, or success is false, or
\* result.access_token is missing
TokenFailed(r) == ~r.http \/ ~r.success \/ r.access_token = NoToken

\* C8: when the token call fails (HTTP layer, success = false, or no
\* access_token), getAccessToken raises after exactly one call to the token
\* endpoint, issues no set, and makeCustomRequest raises without sending a
\* resource request in that attempt.
C8_AuthFailureRaises ==
  \A p \in Procs :
    (gat[p].tokenCalls > 0 /\ TokenFailed(gat[p].resp))
      => /\ gat[p].tokenCalls = 1
         /\ gat[p].sets = 0
         /\ gat[p].out # "returned"
         /\ pc[p] \in {"gat_outer_catch", "done"}
         /\ pc[p] = "done"
              => /\ gat[p].out = "raised"
                 /\ result[p].kind = "raised"
                 /\ Len(requests[p]) = Len(responses[p])
                 /\ Len(requests[p]) = IF retry[p] THEN 0 ELSE 1

\* C8 witness: on the retry attempt the token endpoint answers success = true
\* without a token; the call raised with one request sent, that of attempt 1
C8_Witness ==
  /\ pc[1] = "done"
  /\ ~retry[1]
  /\ gat[1].tokenCalls = 1
  /\ gat[1].resp.http /\ gat[1].resp.success /\ gat[1].resp.access_token = NoToken
  /\ result[1].kind = "raised"
  /\ Len(requests[1]) = 1

\* C9: a resource request that fails at the network level or with a status
\* >= 500 ends the call with an error raised to the caller; it is the last
\* request, and no del follows it (on the retry attempt the only del is the
\* one that preceded the retry).
C9_NetworkFailureRaises ==
  \A p \in Procs :
    \A i \in 1..Len(responses[p]) :
      Failed(responses[p][i])
        => /\ i = Len(responses[p])
           /\ pc[p] = "done"
           /\ result[p].kind = "raised"
           /\ Len(requests[p]) = i
           /\ Len(dels[p]) = i - 1

\* C9 witness: the retry request is answered with status 500
C9_Witness ==
  /\ Len(responses[1]) = 2
  /\ responses[1][2].kind = "http" /\ responses[1][2].data.status = 500
  /\ result[1].kind = "raised"
  /\ dels[1] = <<"deleted">>

\* C10 (as claimed): every resource request handed to axios carries the
\* signature of what it carries: its method, path, access_token, t and body.
C10_SignatureCoversRequest ==
  \A p \in Procs :
    \A i \in 1..Len(requests[p]) :
      LET r == requests[p][i] IN
        r.sign = generateSign(r.method, r.path, r.data, r.access_token, r.t).sign

\* invocation p has connected to the cache or called the vendor
Called(p) ==
  \/ conns[p] # <<>>
  \/ gat[p] # NewGat
  \/ requests[p] # <<>>
  \/ dels[p] # <<>>

\* the action q names is not one of the handler's, or lacks a parameter it
\* requires
Unroutable(q) ==
  LET action == IF q.action = "" THEN "test" ELSE q.action IN
    \/ action \notin {"test", "request", "status", "devices", "state", "control"}
    \/ action = "request" /\ q.path = ""
    \/ action \in {"status", "state"} /\ q.id = ""
    \/ action = "control" /\ (q.id = "" \/ q.command = "")

\* the reply r is a structured failure
StructuredFailure(r) == r.kind = "object" /\ ~r.success /\ r.message # ""

\* C12: the exported handler always resolves with a value: once
\* makeCustomRequest has returned or raised, the handler's return is the next
\* step, and it resolves with an object or (status) a number. Every failure
\* outcome (makeCustomRequest raised for a cache, token or network failure;
\* the vendor's envelope has success = false; the request was not routed) is
\* an object with success = false and a message. An unknown action, or a
\* known action that lacks a required parameter, is answered so without any
\* cache or vendor call.
C12_HandlerNeverThrows ==
  \A p \in Procs :
    LET q == queryParams[p] IN
      /\ pc[p] = "done" => ENABLED HandlerReturn(p)
      /\ pc[p] = "resolved"
           => /\ reply[p].kind \in {"object", "number"}
              /\ reply[p].kind = "object" => reply[p].message # ""
              /\ reply[p].kind = "number"
                   => result[p].kind = "returned" /\ result[p].data.success
              /\ (\/ result[p].kind = "raised"
                  \/ result[p].kind = "returned" /\ ~result[p].data.success
                  \/ result[p].kind = "pending" /\ q.action \notin {"", "test"})
                   => StructuredFailure(reply[p])
      /\ (q # NoQuery /\ Unroutable(q))
           => /\ ~Called(p)
              /\ pc[p] \in {"handler", "resolved"}
              /\ pc[p] = "resolved" => StructuredFailure(reply[p])

\* C12 witness: the control request was answered 1010, the retry met a
\* network failure, and the handler resolved with its internal-error object
C12_Witness ==
  /\ pc[1] = "resolved"
  /\ queryParams[1].action = "control"
  /\ Len(responses[1]) = 2
  /\ responses[1][2].kind = "network"
  /\ result[1].kind = "raised"
  /\ reply[1] = InternalError

\* C12 second case, reached as well: status without an id, no call made
C12_WitnessUnroutable ==
  /\ pc[1] = "resolved"
  /\ queryParams[1].action = "status" /\ queryParams[1].id = ""
  /\ reply[1] = UnknownAction
  /\ ~Called(1)

\* C13: when TUYA_CLIENT_ID or TUYA_CLIENT_SECRET is not set, every call of
\* the handler, whatever the action, resolves at once with
\* {success: false, message: "Server error: Missing Tuya credentials."} and
\* makes no cache connection, no token call and no resource request.
C13_MissingCredentials ==
  (~env.TUYA_CLIENT_ID \/ ~env.TUYA_CLIENT_SECRET)
    => \A p \in Procs :
         /\ ~Called(p)
         /\ pc[p] \in {"idle", "handler", "resolved"}
         /\ pc[p] = "resolved"
              => reply[p] = [kind |-> "object", success |-> FALSE,
                             message |-> "Server error: Missing Tuya credentials.",
                             value |-> 0, data |-> NoEnvelope]

\* C13 witness: the secret alone is missing and a control request was refused
C13_Witness ==
  /\ env.TUYA_CLIENT_ID /\ ~env.TUYA_CLIENT_SECRET
  /\ queryParams[1].action = "control" /\ queryParams[1].command = "on"
  /\ pc[1] = "resolved"
  /\ reply[1].message = "Server error: Missing Tuya credentials."

\* the request r is a POST to the commands path of a device
PostOfCommands(r) == r.method = "POST" /\ r.path = "/v1.0/devices/d1/commands"

\* C14: a control request with an id whose command is neither "on" nor "off"
\* in any letter case resolves with success = false and makes no cache
\* connection, no token call and no resource request; the control action
\* sends a POST to the commands path only for the commands on and off.
C14_InvalidCommandNoCall ==
  \A p \in Procs :
    LET q == queryParams[p] IN
      (q.action = "control" /\ q.id # "")
        => /\ q.command \notin {"on", "off", "ON", "OFF"}
                => /\ ~Called(p)
                   /\ pc[p] \in {"handler", "resolved"}
                   /\ pc[p] = "resolved" => StructuredFailure(reply[p])
           /\ \A i \in 1..Len(requests[p]) :
                /\ PostOfCommands(requests[p][i])
                /\ q.command \in {"on", "off", "ON", "OFF"}
                /\ requests[p][i].data =
                     IF q.command \in {"on", "ON"}
                       THEN "{\"commands\":[{\"code\":\"switch_1\",\"value\":true}]}"
                       ELSE "{\"commands\":[{\"code\":\"switch_2\",\"value\":false}]}"

\* C14 witness: the command "up" was refused with the credentials set
C14_Witness ==
  /\ env.TUYA_CLIENT_ID /\ env.TUYA_CLIENT_SECRET
  /\ queryParams[1].action = "control" /\ queryParams[1].command = "up"
  /\ pc[1] = "resolved"
  /\ reply[1] = InvalidCommand
  /\ ~Called(1)

\* C15: while the retry attempt runs (retry = false), the delete block of the
\* 1010 answer is over: its outcome is recorded and quit has been called on
\* its connection, so all of it precedes the retry's cache read. With one
\* invocation and the delete done, the retry's read never finds a token: when
\* it succeeds it misses, the retry calls the token endpoint exactly once and
\* its resource request carries the token of that call.
C15_DeleteBeforeRetryRead ==
  \A p \in Procs :
    ~retry[p]
      => /\ Len(dels[p]) = 1
         /\ Len(responses[p]) >= 1 /\ Sentinel(responses[p][1])
         /\ dels[p][1] = "noclient" => redisClientDel[p] = NoClient
         /\ dels[p][1] # "noclient"
              => /\ redisClientDel[p] \in 1..Len(conns[p])
                 /\ conns[p][redisClientDel[p]].quits = 1
         /\ dels[p][1] = "deleted"
              => /\ gat[p].read # "hit"
                 /\ (gat[p].read = "miss" /\ GatOver(p)) => gat[p].tokenCalls = 1
                 /\ (gat[p].read = "miss" /\ Len(requests[p]) = 2)
                      => /\ gat[p].resp.access_token # NoToken
                         /\ requests[p][2].access_token = gat[p].resp.access_token

\* C15 witness: the cached token was rejected and deleted; the retry missed,
\* fetched another token and sent its request with it
C15_Witness ==
  /\ ~retry[1]
  /\ dels[1] = <<"deleted">>
  /\ gat[1].read = "miss" /\ gat[1].tokenCalls = 1
  /\ Len(requests[1]) = 2
  /\ requests[1][2].access_token = gat[1].resp.access_token
  /\ requests[1][2].access_token # requests[1][1].access_token

\* the connections of p on which quit has not been called yet
Open(p) == {c \in 1..Len(conns[p]) : conns[p][c].quits = 0}

\* C20: one invocation holds at most one cache connection at any time: the
\* connection of getAccessToken has had quit called before getAccessToken
\* returns or raises, the connection of the delete block is opened only then
\* and has had quit called before the retry's getAccessToken opens its own.
C20_OneConnectionAtATime ==
  \A p \in Procs :
    /\ Cardinality(Open(p)) <= 1
    /\ pc[p] \in {"start", "gat_open", "gat_reopen", "mcr_request", "mcr_await",
                  "mcr_del_open", "done", "resolved"}
         => Open(p) = {}
    /\ pc[p] = "mcr_del" => Open(p) = {redisClientDel[p]}
    /\ pc[p] \in {"gat_get", "gat_set", "gat_final_quit"} => Open(p) = {redisClient[p]}

\* C20 witness: the invocation has opened four connections in turn (read,
\* save, delete, the retry's read), three are closed and one is held
C20_Witness ==
  /\ Len(conns[1]) = 4
  /\ pc[1] = "gat_get"
  /\ Open(1) = {4}

\* the steps of getAccessToken
GatPcs ==
  {"gat_open", "gat_get", "gat_hit_quit", "gat_read_catch", "gat_vendor",
   "gat_reopen", "gat_set", "gat_final_quit", "gat_outer_catch"}

\* the steps of the delete block
DelPcs == {"mcr_del_open", "mcr_del", "mcr_del_quit"}

\* C18: one top-level makeCustomRequest runs getAccessToken at most twice
\* (once before each of its at most two resource requests), each run calls
\* the token endpoint at most once and writes the cache at most once, so at
\* most two token calls and two cache writes are made; the delete block runs
\* at most once, after the first resource request was answered and before
\* the second getAccessToken run and the second resource request.
C18_CallBudget ==
  \A p \in Procs :
    /\ Len(requests[p]) <= 2 /\ Len(responses[p]) <= Len(requests[p])
    /\ Len(dels[p]) <= 1
    /\ gat[p].tokenCalls <= 1 /\ gat[p].sets <= 1
    /\ gat[p].sets <= gat[p].tokenCalls
    /\ pc[p] \in GatPcs
         => /\ Len(requests[p]) = (IF retry[p] THEN 0 ELSE 1)
            /\ Len(dels[p]) = Len(requests[p])
    /\ pc[p] \in DelPcs
         => /\ retry[p]
            /\ Len(requests[p]) = 1 /\ Len(responses[p]) = 1
            /\ Len(dels[p]) = (IF pc[p] = "mcr_del_quit" THEN 1 ELSE 0)
    /\ Len(dels[p]) = 1 => Len(responses[p]) >= 1
    /\ Len(requests[p]) = 2 => (Len(dels[p]) = 1 /\ ~retry[p])

\* C18 witness: a call that used two tokens: one delete in between, the
\* second token fetched and written, two resource requests
C18_Witness ==
  /\ pc[1] = "done"
  /\ Len(requests[1]) = 2
  /\ dels[1] = <<"deleted">>
  /\ gat[1].tokenCalls = 1 /\ gat[1].sets = 1
  /\ requests[1][1].access_token # requests[1][2].access_token
  /\ cache.val = requests[1][2].access_token

\* how many steps an invocation at s can still take before the call ends or
\* recurses
PcRank(s) ==
  CASE s = "start" -> 16
    [] s = "gat_open" -> 15
    [] s = "gat_get" -> 14
    [] s = "gat_hit_quit" -> 13
    [] s = "gat_read_catch" -> 12
    [] s = "gat_vendor" -> 11
    [] s = "gat_reopen" -> 10
    [] s = "gat_set" -> 9
    [] s = "gat_final_quit" -> 8
    [] s = "gat_outer_catch" -> 7
    [] s = "mcr_request" -> 6
    [] s = "mcr_await" -> 5
    [] s = "mcr_del_open" -> 4
    [] s = "mcr_del" -> 3
    [] s = "mcr_del_quit" -> 2
    [] OTHER -> 0

\* the steps left to all invocations: an attempt with retry enabled may be
\* followed by one more attempt
Rank(pcs, retries) ==
  LET R(p) == PcRank(pcs[p]) + (IF retries[p] /\ pcs[p] # "idle" THEN 16 ELSE 0)
  IN R(1) + R(2)

\* C17: every makeCustomRequest call ends, by a return or by raising, whatever
\* the cache and the vendor answer, when each awaited call returns or fails:
\* every step lowers a rank that starts at 32, so a call takes at most 32
\* steps; it sends at most two resource requests (recursion depth 2).
C17_Terminates ==
  /\ <>(pc[1] = "done")
  /\ [][Rank(pc', retry') < Rank(pc, retry)]_vars
  /\ [](Rank(pc, retry) <= 32 /\ Len(requests[1]) <= 2)

\* C17 witness: a call that ended at depth 2
C17_Witness ==
  /\ pc[1] = "done"
  /\ ~retry[1]
  /\ Len(requests[1]) = 2 /\ Len(responses[1]) = 2
  /\ result[1].kind = "returned"

\* the retry's getAccessToken call of p follows a call that wrote the entry
\* `stored`, which no delete removed and no later set replaced
FollowsWrite(p) ==
  /\ ~retry[p]
  /\ dels[p] # <<"deleted">>
  /\ stored.val # NoToken
  /\ gat[p].sets = 0 \/ "set" \in gat[p].errs

\* the TTL of the stored entry has elapsed
Elapsed == stored.val # NoToken /\ cache.val = NoToken

C16_Inv ==
  \A p \in Procs :
    /\ FollowsWrite(p)
         => /\ stored.val = requests[p][1].access_token
            /\ stored.ttl >= 1
            /\ gat[p].read = "miss" => Elapsed
            /\ gat[p].read = "hit"
                 => /\ gat[p].found = stored.val
                    /\ gat[p].errs = {}
                         => /\ gat[p].tokenCalls = 0
                            /\ pc[p] # "gat_vendor"
                            /\ GatOver(p) => (gat[p].out = "returned"
                                               /\ gat[p].tok = stored.val)
    /\ (gat[p].read = "miss" /\ GatOver(p)) => gat[p].tokenCalls = 1

C16_Read ==
  \A p \in Procs :
    (pc[p] = "gat_get" /\ pc'[p] # "gat_get" /\ gat'[p].read # "error")
      => IF cache.val # NoToken
           THEN gat'[p].read = "hit" /\ gat'[p].found = cache.val
           ELSE gat'[p].read = "miss"

\* C16: after a getAccessToken call that missed and wrote v with a positive
\* TTL, and no delete since, the next getAccessToken call whose cache commands
\* succeed reads v while the TTL has not elapsed, returns v and calls no token
\* endpoint; once the TTL has elapsed its read misses, and a call that missed
\* calls the token endpoint exactly once.
C16_CacheRoundTrip == []C16_Inv /\ [][C16_Read]_vars

\* C16 witness: the first attempt wrote its token, the delete failed, the TTL
\* has not elapsed and the retry returned the written token without a token call
C16_Witness ==
  /\ FollowsWrite(1) /\ ~Elapsed
  /\ dels[1] = <<"failed">>
  /\ gat[1].read = "hit" /\ gat[1].out = "returned"
  /\ gat[1].tok = requests[1][1].access_token
  /\ gat[1].tokenCalls = 0

\* C16, the other case, reached as well: the TTL elapsed before the retry's
\* read, which missed; the token endpoint was called once
C16_WitnessElapsed ==
  /\ FollowsWrite(1) /\ Elapsed
  /\ dels[1] = <<"failed">>
  /\ gat[1].read = "miss" /\ gat[1].tokenCalls = 1
  /\ pc[1] = "gat_set"

\* the first getAccessToken calls of both invocations run, or have run, and
\* none has found a token
BothMiss == \A p \in Procs : retry[p] /\ gat[p].read = "miss"

\* what invocation p writes to the cache: its own token with its own ttl
EntryOf(p) == [val |-> gat[p].resp.access_token, ttl |-> gat[p].ttl]

\* the set of p's running getAccessToken call has succeeded
Saved(p) == gat[p].sets = 1 /\ "set" \notin gat[p].errs

C11_Inv ==
  /\ \A p \in Procs : pc[p] # "done" => ENABLED Step(p)
  /\ BothMiss
       => /\ \A p \in Procs :
               /\ gat[p].tokenCalls <= 1
               /\ pc[p] \notin {"gat_get", "gat_vendor"} => gat[p].tokenCalls = 1
               /\ gat[p].out = "returned"
                    => /\ gat[p].tok = gat[p].resp.access_token
                       /\ gat[p].tok # NoToken
                       /\ gat[p].sets = 1
          /\ (\A p \in Procs : gat[p].out = "returned" /\ Saved(p) /\ dels[p] = <<>>)
               => cache \in {EntryOf(1), EntryOf(2)}

C11_LastWriteWins ==
  /\ \A p \in Procs :
       (pc[p] = "gat_set" /\ pc'[p] # "gat_set" /\ "set" \notin gat'[p].errs)
         => cache' = EntryOf(p)
  /\ cache' # cache
       => \E p \in Procs : /\ pc[p] \in {"gat_set", "mcr_del"}
                           /\ pc'[p] # pc[p]

\* C11: two invocations whose getAccessToken calls both miss never wait for
\* each other (each can always take its next step); each calls the token
\* endpoint once, returns the token it was issued and issues its own set; every
\* successful set replaces the whole entry and nothing but a set or a delete
\* changes it, so once both are done and both sets succeeded the cache holds
\* the entry of one of them, the one written last.
C11_ConcurrentMisses == []C11_Inv /\ [][C11_LastWriteWins]_vars

\* C11 witness: both missed, were issued different tokens and wrote them; the
\* cache holds the token of invocation 1
C11_Witness ==
  /\ BothMiss
  /\ \A p \in Procs : gat[p].out = "returned" /\ Saved(p) /\ dels[p] = <<>>
  /\ gat[1].tok # gat[2].tok
  /\ cache = EntryOf(1)

\* C19 (as claimed): a delete that follows a 1010 answer removes nothing but
\* the token that was rejected: when del succeeds the key is absent or holds
\* the token of the rejected request, never a different token that another
\* invocation has written since.
C19_DeleteOnlyRejected ==
  [][\A p \in Procs :
       (pc[p] = "mcr_del" /\ dels'[p] = Append(dels[p], "deleted"))
         => cache.val \in {NoToken, requests[p][1].access_token}]_vars

====
